---- MODULE Spec2Model ----
(***************************************************************************)
(* Model of build.py: the layered build configuration (BuildConfig), the   *)
(* platform builders (WindowsBuilder, LinuxBuilder, MacOSBuilder) and the  *)
(* orchestration of one run of the tool (AppBuilder, main).                *)
(*                                                                         *)
(* Strings that the code takes apart or puts together are sequences of     *)
(* fragments: a version string is its sequence of characters, a command    *)
(* line token or a path is the sequence of the pieces it is formatted      *)
(* from.  A dict is a function from its keys; None is the empty string.    *)
(***************************************************************************)
EXTENDS Integers, Sequences, FiniteSets, TLC

VARIABLES
    sys_platform,     \* sys.platform of the host
    file,             \* the configuration file at the --config path
    args_clean,       \* args.clean
    fs,               \* the directories that exist
    pc,               \* position of the run
    config,           \* BuildConfig.config
    saved,            \* the configuration held when save() was called
    cmd,              \* the argument list assembled for the bundler
    version_info_txt, \* the file version_info.txt
    desktop_file,     \* the generated .desktop file
    trace,            \* steps and external processes, in the order they ran
    log,              \* records written to the logger
    rc,               \* exit status of each external process (-1: not run)
    stdout,           \* output of the identity listing
    identity,         \* value returned by get_signing_identity
    sign_result,      \* outcome of sign_app
    result,           \* outcome of AppBuilder.build
    error,            \* exception that left main, "" when none
    exit_status       \* exit status of the process (-1: still running)

vars == <<sys_platform, file, args_clean, fs, pc, config, saved, cmd,
          version_info_txt, desktop_file, trace, log, rc, stdout, identity,
          sign_result, result, error, exit_status>>

(***************************************************************************)
(* Bounds                                                                  *)
(***************************************************************************)
MaxLines == 2

(***************************************************************************)
(* Python helpers                                                          *)
(***************************************************************************)
EmptyDict == [k \in {} |-> TRUE]

Get(d, k, default) == IF k \in DOMAIN d THEN d[k] ELSE default

\* {**base, **over}: the keys of over win
DictMerge(base, over) == over @@ base

Range(s) == {s[i] : i \in 1..Len(s)}

Tok(s) == <<s>>

RECURSIVE Split(_, _)
Split(s, sep) ==
    IF \A i \in 1..Len(s) : s[i] # sep
    THEN <<s>>
    ELSE LET i == CHOOSE j \in 1..Len(s) :
                     s[j] = sep /\ \A k \in 1..(j - 1) : s[k] # sep
         IN  <<SubSeq(s, 1, i - 1)>> \o Split(SubSeq(s, i + 1, Len(s)), sep)

RECURSIVE Join(_, _)
Join(parts, sep) ==
    IF Len(parts) = 0 THEN <<>>
    ELSE IF Len(parts) = 1 THEN parts[1]
    ELSE parts[1] \o <<sep>> \o Join(Tail(parts), sep)

(***************************************************************************)
(* PlatformConfig                                                          *)
(***************************************************************************)
SysPlatforms == {"win32", "darwin", "linux"}

get_platform(sp) ==
    IF sp = "win32" THEN "windows"
    ELSE IF sp = "darwin" THEN "macos"
    ELSE "linux"

get_icon_extension(sp) ==
    IF sp = "win32" THEN ".ico"
    ELSE IF sp = "darwin" THEN ".icns"
    ELSE ".png"

os_pathsep(sp) == IF sp = "win32" THEN ";" ELSE ":"

(***************************************************************************)
(* BuildConfig                                                             *)
(***************************************************************************)
DefaultBase(sp) ==
    [app_name |-> "YourApp",
     version |-> <<"1", ".", "0", ".", "0">>,
     main_script |-> "main.py",
     build_dir |-> "build",
     dist_dir |-> "dist",
     additional_data |-> <<>>,
     hidden_imports |-> <<>>,
     exclude_modules |-> <<>>,
     icon_file |-> <<"icons/app_icon", get_icon_extension(sp)>>]

DefaultPlatformConfigs ==
    [windows |-> [console |-> FALSE, admin_access |-> FALSE,
                  uac_admin |-> FALSE, version_file |-> "version.txt"],
     macos |-> [bundle_identifier |-> "com.example.yourapp",
                entitlements_file |-> "entitlements.plist",
                info_plist |-> "Info.plist"],
     linux |-> [console |-> FALSE, desktop_file |-> "app.desktop",
                categories |-> "Utility;"]]

_default_config(sp) ==
    DictMerge(DefaultBase(sp),
              Get(DefaultPlatformConfigs, get_platform(sp), EmptyDict))

NoFile == [exists |-> FALSE, wellformed |-> FALSE, doc |-> EmptyDict]
MalformedFile == [exists |-> TRUE, wellformed |-> FALSE, doc |-> EmptyDict]
JsonFile(d) == [exists |-> TRUE, wellformed |-> TRUE, doc |-> d]

\* variant: a file that cannot be parsed is treated like a missing one
_load_config_lenient(f, sp) ==
    IF f.exists /\ f.wellformed
    THEN [err |-> "",
          config |-> DictMerge(Get(f.doc, "base", EmptyDict),
                               Get(f.doc, get_platform(sp), EmptyDict))]
    ELSE [err |-> "", config |-> _default_config(sp)]

_load_config(f, sp) ==
    IF f.exists
    THEN IF ~f.wellformed
         THEN [err |-> "JSONDecodeError", config |-> EmptyDict]
         ELSE [err |-> "",
               config |-> DictMerge(Get(f.doc, "base", EmptyDict),
                                    Get(f.doc, get_platform(sp), EmptyDict))]
    ELSE [err |-> "", config |-> _default_config(sp)]

\* json.dump(self.config, f): the document written is the held mapping
save(c) == JsonFile(c)

(***************************************************************************)
(* The filesystem: directories named by build_dir and dist_dir             *)
(***************************************************************************)
Paths == {"build", "dist", "build/dist"}

\* <<a, d>>: directory d lies inside directory a
Nesting == {<<"build", "build/dist">>}

IsUnder(p, d) == p = d \/ <<d, p>> \in Nesting

ParentClosed(S) == \A p \in S : \A a \in Paths : <<a, p>> \in Nesting => a \in S

os_path_exists(dirs, d) == d \in dirs

shutil_rmtree(dirs, d) == {p \in dirs : ~IsUnder(p, d)}

os_makedirs(dirs, d) == dirs \cup {d} \cup {a \in Paths : <<a, d>> \in Nesting}

NoArtifact == [exists |-> FALSE]

(***************************************************************************)
(* WindowsBuilder                                                          *)
(***************************************************************************)
VersionParts == 4

RECURSIVE PadParts(_)
PadParts(parts) ==
    IF Len(parts) < VersionParts
    THEN PadParts(Append(parts, <<"0">>))
    ELSE parts

create_version_info(c) ==
    IF "version" \notin DOMAIN c \/ "app_name" \notin DOMAIN c
    THEN [err |-> "KeyError", written |-> NoArtifact, ret |-> ""]
    ELSE LET version_parts == PadParts(Split(c["version"], "."))
             version_tuple == Join(version_parts, ",")
             company == Get(c, "company", EmptyDict)
             company_name == Get(company, "name", "Unknown Company")
         IN  [err |-> "",
              written |->
                  [exists |-> TRUE,
                   filevers |-> version_tuple,
                   prodvers |-> version_tuple,
                   CompanyName |-> company_name,
                   FileDescription |-> Get(company, "description", c["app_name"]),
                   FileVersion |-> c["version"],
                   InternalName |-> c["app_name"],
                   LegalTrademarks |-> Get(company, "trademark", company_name),
                   OriginalFilename |-> <<c["app_name"], ".exe">>,
                   ProductName |-> Get(company, "product_name", c["app_name"]),
                   ProductVersion |-> c["version"]],
              ret |-> "version_info.txt"]

(***************************************************************************)
(* LinuxBuilder                                                            *)
(***************************************************************************)
create_desktop_file(c, dirs) ==
    IF \E k \in {"app_name", "version", "build_dir"} : k \notin DOMAIN c
    THEN [err |-> "KeyError", written |-> NoArtifact, dirs |-> dirs]
    ELSE [err |-> "",
          written |->
              [exists |-> TRUE,
               path |-> <<c["build_dir"], "/", c["app_name"], ".desktop">>,
               Name |-> c["app_name"],
               Exec |-> c["app_name"],
               Icon |-> c["app_name"],
               Type |-> "Application",
               Categories |-> Get(c, "categories", "Utility;"),
               Version |-> c["version"]],
          dirs |-> os_makedirs(dirs, c["build_dir"])]

(***************************************************************************)
(* MacOSBuilder                                                            *)
(***************************************************************************)
\* variant: the identities dict filled in the opposite order
IdentityKeysReversed ==
    <<"Mac Developer",
      "3rd Party Mac Developer Application",
      "Apple Development",
      "Developer ID Application">>

\* the keys of the identities dict, in insertion order
IdentityKeys ==
    <<"Developer ID Application",
      "Apple Development",
      "3rd Party Mac Developer Application",
      "Mac Developer">>

AdHoc == "-"

\* A line of the listing: the certificate name written on it and the first
\* run of 40 upper-case hexadecimal digits on it ("" when it has none).
Labels == Range(IdentityKeys) \cup {"iPhone Distribution"}
Hexes == {"A1A1", "B2B2"}
Lines == [label : Labels, hex : Hexes \cup {""}]

RECURSIVE SeqsUpTo(_, _)
SeqsUpTo(S, n) ==
    IF n = 0 THEN {<<>>}
    ELSE LET shorter == SeqsUpTo(S, n - 1)
         IN  shorter \cup {Append(s, x) : s \in {t \in shorter : Len(t) = n - 1}, x \in S}

Outputs == SeqsUpTo(Lines, MaxLines)

\* the listings one run of the tool is tried with: at most one line
RunOutputs == SeqsUpTo(Lines, 1)

\* identity in line: substring test
Contains(line, ident) ==
    \/ line.label = ident
    \/ ident = "Mac Developer" /\ line.label = "3rd Party Mac Developer Application"

\* re.search(r'([A-F0-9]{40})', line)
re_search(line) == line.hex

RECURSIVE ScanLabels(_, _, _)
ScanLabels(identities, line, i) ==
    IF i > Len(IdentityKeys) THEN identities
    ELSE IF Contains(line, IdentityKeys[i]) /\ re_search(line) # ""
         THEN [identities EXCEPT ![IdentityKeys[i]] = re_search(line)]
         ELSE ScanLabels(identities, line, i + 1)

RECURSIVE ScanLines(_, _)
ScanLines(identities, lines) ==
    IF lines = <<>> THEN identities
    ELSE ScanLines(ScanLabels(identities, Head(lines), 1), Tail(lines))

RECURSIVE FirstFound(_, _)
FirstFound(identities, i) ==
    IF i > Len(IdentityKeys) THEN AdHoc
    ELSE IF identities[IdentityKeys[i]] # "" THEN identities[IdentityKeys[i]]
    ELSE FirstFound(identities, i + 1)

get_signing_identity(listing_rc, out) ==
    IF listing_rc # 0
    THEN [ret |-> AdHoc,
          log |-> <<<<"ERROR", "Error checking signing identities">>>>]
    ELSE LET identities ==
                 ScanLines([k \in Range(IdentityKeys) |-> ""], out)
             found == FirstFound(identities, 1)
         IN  [ret |-> found,
              log |-> IF found # AdHoc
                      THEN <<<<"INFO", "Using signing identity">>>>
                      ELSE <<<<"WARNING", "No preferred signing identity found. Using ad-hoc signing.">>>>]

sign_app(c, listing_rc, out, codesign_rc, verify_rc) ==
    LET ident == get_signing_identity(listing_rc, out)
        listed == [identity |-> ident.ret,
                   stdout |-> IF listing_rc = 0 THEN out ELSE <<>>]
    IN  IF "entitlements_file" \notin DOMAIN c
        THEN listed @@
             [ret |-> "raised", err |-> "KeyError",
              trace |-> <<"security">>, log |-> ident.log,
              rc |-> [security |-> listing_rc, codesign |-> -1, verify |-> -1]]
        ELSE IF codesign_rc # 0
        THEN listed @@
             [ret |-> "false", err |-> "",
              trace |-> <<"security", "codesign">>,
              log |-> ident.log \o <<<<"ERROR", "Error during code signing">>>>,
              rc |-> [security |-> listing_rc, codesign |-> codesign_rc, verify |-> -1]]
        ELSE IF verify_rc # 0
        THEN listed @@
             [ret |-> "false", err |-> "",
              trace |-> <<"security", "codesign", "codesign --verify">>,
              log |-> ident.log \o <<<<"INFO", "Application signed successfully!">>,
                                     <<"ERROR", "Error during code signing">>>>,
              rc |-> [security |-> listing_rc, codesign |-> codesign_rc, verify |-> verify_rc]]
        ELSE listed @@
             [ret |-> "true", err |-> "",
              trace |-> <<"security", "codesign", "codesign --verify">>,
              log |-> ident.log \o <<<<"INFO", "Application signed successfully!">>>>,
              rc |-> [security |-> listing_rc, codesign |-> codesign_rc, verify |-> verify_rc]]

(***************************************************************************)
(* AppBuilder                                                              *)
(***************************************************************************)
\* truth value of a configured flag
Truthy(v) == v = TRUE

clean(c, dirs) ==
    IF "build_dir" \notin DOMAIN c \/ "dist_dir" \notin DOMAIN c
    THEN [err |-> "KeyError", dirs |-> dirs, log |-> <<>>]
    ELSE LET b == c["build_dir"]
             d == c["dist_dir"]
             dirs1 == IF os_path_exists(dirs, b) THEN shutil_rmtree(dirs, b) ELSE dirs
             log1 == IF os_path_exists(dirs, b)
                     THEN <<<<"INFO", "Cleaned", b, "directory">>>> ELSE <<>>
             dirs2 == IF os_path_exists(dirs1, d) THEN shutil_rmtree(dirs1, d) ELSE dirs1
             log2 == IF os_path_exists(dirs1, d)
                     THEN <<<<"INFO", "Cleaned", d, "directory">>>> ELSE <<>>
         IN  [err |-> "", dirs |-> dirs2, log |-> log1 \o log2]

prepare_platform_specific(sp, c, dirs) ==
    LET none == [err |-> "", extra_args |-> <<>>, version_info |-> NoArtifact,
                 desktop |-> NoArtifact, dirs |-> dirs]
    IN  IF get_platform(sp) = "windows"
        THEN LET v == create_version_info(c)
             IN  IF v.err # "" THEN [none EXCEPT !.err = v.err]
                 ELSE [none EXCEPT
                         !.version_info = v.written,
                         !.extra_args =
                             <<Tok("--version-file"), Tok(v.ret)>>
                             \o (IF Truthy(Get(c, "uac_admin", FALSE))
                                 THEN <<Tok("--uac-admin")>> ELSE <<>>)]
        ELSE IF get_platform(sp) = "linux"
        THEN LET d == create_desktop_file(c, dirs)
             IN  IF d.err # "" THEN [none EXCEPT !.err = d.err]
                 ELSE [none EXCEPT !.desktop = d.written, !.dirs = d.dirs]
        ELSE none

\* variant: the windowing option considered on Windows only
WindowedPlatformsWindowsOnly == {"windows"}

\* the platforms on which the windowing option is considered
WindowedPlatforms == {"windows", "macos"}

windowed_args(sp, c) ==
    IF get_platform(sp) \in WindowedPlatforms /\ ~Truthy(Get(c, "console", FALSE))
    THEN <<Tok("--windowed")>>
    ELSE <<>>

RECURSIVE hidden_import_args(_)
hidden_import_args(imps) ==
    IF imps = <<>> THEN <<>>
    ELSE <<Tok("--hidden-import"), Tok(Head(imps))>> \o hidden_import_args(Tail(imps))

RECURSIVE add_data_args(_, _)
add_data_args(data, sep) ==
    IF data = <<>> THEN <<>>
    ELSE <<Tok("--add-data"), <<Head(data)[1], sep, Head(data)[2]>>>>
         \o add_data_args(Tail(data), sep)

\* AppBuilder.build up to the bundler invocation
assemble(sp, c, dirs) ==
    LET failed == [err |-> "KeyError", prepared |-> FALSE, cmd |-> <<>>,
                   version_info |-> NoArtifact, desktop |-> NoArtifact,
                   dirs |-> dirs]
    IN  IF "app_name" \notin DOMAIN c THEN failed
        ELSE
        LET head == <<Tok("pyinstaller"), Tok("--name"), Tok(c["app_name"]),
                      Tok("--noconfirm"), Tok("--clean")>>
                    \o windowed_args(sp, c)
                    \o (IF "icon_file" \in DOMAIN c
                        THEN <<Tok("--icon"), c["icon_file"]>> ELSE <<>>)
            prep == prepare_platform_specific(sp, c, dirs)
            done == [failed EXCEPT !.prepared = TRUE,
                                   !.version_info = prep.version_info,
                                   !.desktop = prep.desktop,
                                   !.dirs = prep.dirs]
        IN  IF prep.err # "" THEN [failed EXCEPT !.prepared = TRUE, !.err = prep.err]
            ELSE IF \E k \in {"hidden_imports", "additional_data", "main_script"} :
                        k \notin DOMAIN c
            THEN done
            ELSE [done EXCEPT
                    !.err = "",
                    !.cmd = head
                            \o prep.extra_args
                            \o (IF get_platform(sp) = "macos"
                                   /\ "bundle_identifier" \in DOMAIN c
                                THEN <<Tok("--osx-bundle-identifier"),
                                       Tok(c["bundle_identifier"])>>
                                ELSE <<>>)
                            \o hidden_import_args(c["hidden_imports"])
                            \o add_data_args(c["additional_data"], os_pathsep(sp))
                            \o <<Tok(c["main_script"])>>]

\* variant: the post-build step taken on every platform
PostBuildPlatformsAll == {"windows", "macos", "linux"}

\* the platforms with a post-build step
PostBuildPlatforms == {"macos"}

(***************************************************************************)
(* Inputs: configuration documents, version strings, directories           *)
(***************************************************************************)
Versions ==
    {<<"1", ".", "0", ".", "0">>,
     <<"1", ".", "2">>,
     <<"1", ".", "2", ".", "3", ".", "4">>,
     <<"1", ".", "2", ".", "3", ".", "4", ".", "5">>,
     <<"1", ".", "a", ".", "0">>,
     <<"1", ".", ".", "2">>,
     <<"7">>,
     <<>>}

Without(d, ks) == [k \in DOMAIN d \ ks |-> d[k]]

ProjectBase(sp) ==
    [DefaultBase(sp) EXCEPT !.app_name = "Foo", !.version = <<"2", ".", "0">>]

Layered(sp, base, over) == ("base" :> base) @@ (get_platform(sp) :> over)

DirDocs(sp) ==
    {Layered(sp, [ProjectBase(sp) EXCEPT !.build_dir = d[1], !.dist_dir = d[2]],
             DefaultPlatformConfigs[get_platform(sp)]) :
        d \in {<<"build", "build/dist">>, <<"build", "build">>, <<"build/dist", "dist">>}}

Docs(sp) ==
    LET base == ProjectBase(sp)
        over == DefaultPlatformConfigs[get_platform(sp)]
    IN  {Layered(sp, base, over)}
        \cup {Layered(sp, [base EXCEPT !.version = v], over) : v \in Versions}
        \cup {Layered(sp, base, ("console" :> b) @@ over) : b \in BOOLEAN}
        \cup {Layered(sp, ("console" :> TRUE) @@ base, over)}
        \cup DirDocs(sp)
        \cup {Layered(sp, [base EXCEPT !.hidden_imports = <<"pkg.a", "pkg.b">>,
                                       !.additional_data = <<<<"assets", "data">>>>],
                      ("uac_admin" :> TRUE) @@ over)}
        \cup {Layered(sp, ("company" :> [name |-> "Acme"]) @@ base, over)}
        \cup {Layered(sp, base, EmptyDict),
              "base" :> base,
              get_platform(sp) :> over,
              EmptyDict,
              Layered(sp, [app_name |-> "Foo"], over),
              Layered(sp, Without(base, {"dist_dir"}), over),
              Layered(sp, Without(base, {"hidden_imports", "icon_file"}), over),
              Layered(sp, Without(base, {"version"}), Without(over, {"bundle_identifier"})),
              _default_config(sp)}

Files(sp) == {NoFile, MalformedFile} \cup {JsonFile(d) : d \in Docs(sp)}

DirFiles(sp) == {NoFile} \cup {JsonFile(d) : d \in DirDocs(sp)}

(***************************************************************************)
(* One run of the tool: main()                                             *)
(***************************************************************************)
NoRc == [pyinstaller |-> -1, security |-> -1, codesign |-> -1, verify |-> -1]

Fresh ==
    /\ config = EmptyDict
    /\ saved = EmptyDict
    /\ cmd = <<>>
    /\ version_info_txt = NoArtifact
    /\ desktop_file = NoArtifact
    /\ trace = <<>>
    /\ log = <<>>
    /\ rc = NoRc
    /\ stdout = <<>>
    /\ identity = ""
    /\ sign_result = "none"
    /\ result = "none"
    /\ error = ""
    /\ exit_status = -1

Init ==
    /\ sys_platform \in SysPlatforms
    /\ file \in Files(sys_platform)
    /\ args_clean \in BOOLEAN
    /\ fs \in {S \in SUBSET Paths : ParentClosed(S)}
    /\ (file \in DirFiles(sys_platform) /\ args_clean) \/ fs = {"build", "dist"}
    /\ pc = "start"
    /\ Fresh

\* an exception nobody catches ends the interpreter with status 1
Uncaught(e) ==
    /\ pc' = "exited"
    /\ error' = e
    /\ exit_status' = 1

\* main: config = BuildConfig(args.config); builder = AppBuilder(config)
LoadConfig ==
    /\ pc = "start"
    /\ LET r == _load_config(file, sys_platform)
       IN  IF r.err # ""
           THEN /\ Uncaught(r.err)
                /\ UNCHANGED config
           ELSE /\ config' = r.config
                /\ pc' = IF args_clean THEN "clean" ELSE "build"
                /\ UNCHANGED <<error, exit_status>>
    /\ UNCHANGED <<sys_platform, file, args_clean, fs, saved, cmd,
                   version_info_txt, desktop_file, trace, log, rc, stdout,
                   identity, sign_result, result>>

\* main: if args.clean: builder.clean()
Clean ==
    /\ pc = "clean"
    /\ LET r == clean(config, fs)
       IN  /\ trace' = Append(trace, "clean")
           /\ fs' = r.dirs
           /\ log' = log \o r.log
           /\ IF r.err # ""
              THEN Uncaught(r.err)
              ELSE /\ pc' = "build"
                   /\ UNCHANGED <<error, exit_status>>
    /\ UNCHANGED <<sys_platform, file, args_clean, config, saved, cmd,
                   version_info_txt, desktop_file, rc, stdout, identity,
                   sign_result, result>>

\* build(): the argument list and the platform artifacts
Assemble ==
    /\ pc = "build"
    /\ LET r == assemble(sys_platform, config, fs)
       IN  /\ trace' = IF r.prepared
                       THEN Append(trace, "prepare_platform_specific")
                       ELSE trace
           /\ fs' = r.dirs
           /\ version_info_txt' = IF r.version_info.exists
                                  THEN r.version_info ELSE version_info_txt
           /\ desktop_file' = IF r.desktop.exists THEN r.desktop ELSE desktop_file
           /\ IF r.err # ""
              THEN /\ Uncaught(r.err)
                   /\ result' = "raised"
                   /\ UNCHANGED cmd
              ELSE /\ cmd' = r.cmd
                   /\ pc' = "invoke"
                   /\ UNCHANGED <<error, exit_status, result>>
    /\ UNCHANGED <<sys_platform, file, args_clean, config, saved, log, rc,
                   stdout, identity, sign_result>>

\* build(): subprocess.run(cmd, check=True)
Invoke ==
    /\ pc = "invoke"
    /\ \E status \in {0, 1} :
        /\ rc' = [rc EXCEPT !.pyinstaller = status]
        /\ trace' = Append(trace, "pyinstaller")
        /\ IF status # 0
           THEN /\ log' = Append(log, <<"ERROR", "Error building application">>)
                /\ result' = "false"
                /\ pc' = "return"
           ELSE /\ log' = Append(log, <<"INFO", "Application built successfully!">>)
                /\ IF get_platform(sys_platform) \in PostBuildPlatforms
                   THEN /\ pc' = "postbuild"
                        /\ UNCHANGED result
                   ELSE /\ pc' = "return"
                        /\ result' = "true"
    /\ UNCHANGED <<sys_platform, file, args_clean, fs, config, saved, cmd,
                   version_info_txt, desktop_file, stdout, identity,
                   sign_result, error, exit_status>>

\* build(): the macOS post-build step, MacOSBuilder.sign_app
PostBuild ==
    /\ pc = "postbuild"
    /\ IF "dist_dir" \notin DOMAIN config
       THEN /\ Uncaught("KeyError")
            /\ result' = "raised"
            /\ UNCHANGED <<trace, log, rc, stdout, identity, sign_result>>
       ELSE \E listing_rc \in {0, 1}, out \in RunOutputs,
               codesign_rc \in {0, 1}, verify_rc \in {0, 1} :
            LET r == sign_app(config, listing_rc, out, codesign_rc, verify_rc)
            IN  /\ trace' = trace \o r.trace
                /\ log' = log \o r.log
                /\ rc' = [pyinstaller |-> rc.pyinstaller] @@ r.rc
                /\ stdout' = r.stdout
                /\ identity' = r.identity
                /\ sign_result' = r.ret
                /\ IF r.err # ""
                   THEN /\ Uncaught(r.err)
                        /\ result' = "raised"
                   ELSE /\ pc' = "return"
                        /\ result' = "true"
                        /\ UNCHANGED <<error, exit_status>>
    /\ UNCHANGED <<sys_platform, file, args_clean, fs, config, saved, cmd,
                   version_info_txt, desktop_file>>

\* main: if builder.build(): ... else: sys.exit(1)
Exit ==
    /\ pc = "return"
    /\ pc' = "exited"
    /\ IF result = "true"
       THEN /\ log' = Append(log, <<"INFO", "Build completed successfully!">>)
            /\ exit_status' = 0
       ELSE /\ log' = Append(log, <<"ERROR", "Build failed!">>)
            /\ exit_status' = 1
    /\ UNCHANGED <<sys_platform, file, args_clean, fs, config, saved, cmd,
                   version_info_txt, desktop_file, trace, rc, stdout, identity,
                   sign_result, result, error>>

Next ==
    \/ LoadConfig
    \/ Clean
    \/ Assemble
    \/ Invoke
    \/ PostBuild
    \/ Exit

Spec == Init /\ [][Next]_vars

(***************************************************************************)
(* The BuildConfig object: construction, save(), construction again        *)
(***************************************************************************)
InitConfig ==
    /\ sys_platform \in SysPlatforms
    /\ file \in Files(sys_platform)
    /\ args_clean = FALSE
    /\ fs = {}
    /\ pc = "new"
    /\ Fresh

\* BuildConfig(config_file)
Construct ==
    /\ pc = "new"
    /\ LET r == _load_config(file, sys_platform)
       IN  IF r.err # ""
           THEN /\ pc' = "failed"
                /\ error' = r.err
                /\ UNCHANGED config
           ELSE /\ pc' = "held"
                /\ config' = r.config
                /\ UNCHANGED error
    /\ UNCHANGED <<sys_platform, file, args_clean, fs, saved, cmd,
                   version_info_txt, desktop_file, trace, log, rc, stdout,
                   identity, sign_result, result, exit_status>>

\* BuildConfig.save()
Save ==
    /\ pc = "held"
    /\ file' = save(config)
    /\ saved' = config
    /\ pc' = "saved"
    /\ UNCHANGED <<sys_platform, args_clean, fs, config, cmd,
                   version_info_txt, desktop_file, trace, log, rc, stdout,
                   identity, sign_result, result, error, exit_status>>

\* BuildConfig(config_file) on the path just saved
Reload ==
    /\ pc = "saved"
    /\ LET r == _load_config(file, sys_platform)
       IN  IF r.err # ""
           THEN /\ pc' = "failed"
                /\ error' = r.err
                /\ UNCHANGED config
           ELSE /\ pc' = "reloaded"
                /\ config' = r.config
                /\ UNCHANGED error
    /\ UNCHANGED <<sys_platform, file, args_clean, fs, saved, cmd,
                   version_info_txt, desktop_file, trace, log, rc, stdout,
                   identity, sign_result, result, exit_status>>

NextConfig ==
    \/ Construct
    \/ Save
    \/ Reload

SpecConfig == InitConfig /\ [][NextConfig]_vars

(***************************************************************************)
(* MacOSBuilder called on its own                                          *)
(***************************************************************************)
\* configurations a BuildConfig can hold on macOS
MacConfigs ==
    {_load_config(f, "darwin").config :
        f \in {NoFile,
               JsonFile(Layered("darwin", ProjectBase("darwin"), EmptyDict)),
               JsonFile(EmptyDict)}}

InitMacOS ==
    /\ sys_platform = "darwin"
    /\ file = NoFile
    /\ args_clean = FALSE
    /\ fs = {"build", "dist"}
    /\ pc = "macos"
    /\ saved = EmptyDict
    /\ cmd = <<>>
    /\ version_info_txt = NoArtifact
    /\ desktop_file = NoArtifact
    /\ trace = <<>>
    /\ log = <<>>
    /\ rc = NoRc
    /\ stdout = <<>>
    /\ identity = ""
    /\ sign_result = "none"
    /\ result = "none"
    /\ error = ""
    /\ exit_status = -1
    /\ config \in MacConfigs

\* MacOSBuilder.get_signing_identity()
GetSigningIdentity ==
    /\ pc = "macos"
    /\ \E listing_rc \in {0, 1}, out \in Outputs :
        LET r == get_signing_identity(listing_rc, out)
        IN  /\ identity' = r.ret
            /\ log' = log \o r.log
            /\ stdout' = IF listing_rc = 0 THEN out ELSE <<>>
            /\ rc' = [rc EXCEPT !.security = listing_rc]
            /\ trace' = Append(trace, "security")
            /\ pc' = "resolved"
    /\ UNCHANGED <<sys_platform, file, args_clean, fs, config, saved, cmd,
                   version_info_txt, desktop_file, sign_result, result, error,
                   exit_status>>

\* MacOSBuilder.sign_app(app_path, config)
SignApp ==
    /\ pc = "macos"
    /\ \E listing_rc \in {0, 1}, out \in RunOutputs,
          codesign_rc \in {0, 1}, verify_rc \in {0, 1} :
        LET r == sign_app(config, listing_rc, out, codesign_rc, verify_rc)
        IN  /\ trace' = trace \o r.trace
            /\ log' = log \o r.log
            /\ rc' = [pyinstaller |-> rc.pyinstaller] @@ r.rc
            /\ stdout' = r.stdout
            /\ identity' = r.identity
            /\ sign_result' = r.ret
            /\ error' = r.err
            /\ pc' = "signed"
    /\ UNCHANGED <<sys_platform, file, args_clean, fs, config, saved, cmd,
                   version_info_txt, desktop_file, result, exit_status>>

NextMacOS ==
    \/ GetSigningIdentity
    \/ SignApp

SpecMacOS == InitMacOS /\ [][NextMacOS]_vars

(***************************************************************************)
(* Properties                                                              *)
(***************************************************************************)
Windowed == Tok("--windowed")

Ran(step) == step \in Range(trace)

SigningSteps == {"security", "codesign", "codesign --verify"}

Digits == {"0", "1", "2", "3", "4", "5", "6", "7", "8", "9"}

IsNumeric(comp) == comp # <<>> /\ \A i \in 1..Len(comp) : comp[i] \in Digits

\* C1: after save() and a new load of the same path on the same platform,
\* the effective configuration equals the configuration that was saved.
C1_SaveLoadRoundTrip == pc = "reloaded" => config = saved

\* C2: when the bundler was invoked, build() returns success exactly when
\* the bundler exited zero and failure exactly when it did not, whatever the
\* signing step does, and the process exits 0 on success and 1 on failure.
C2_ResultFollowsBundler ==
    (pc = "exited" /\ rc.pyinstaller # -1) =>
        /\ result = "true" <=> rc.pyinstaller = 0
        /\ result = "false" <=> rc.pyinstaller # 0
        /\ exit_status = 0 <=> result = "true"
        /\ exit_status = 1 <=> result = "false"

\* C3: once a malformed configuration file has been loaded the run is over
\* with a parse error: no configuration (in particular not the defaults) is
\* held, and no cleanup, artifact, argument list or external process exists.
C3_MalformedAborts ==
    (file.exists /\ ~file.wellformed /\ pc # "start") =>
        /\ pc = "exited"
        /\ error = "JSONDecodeError"
        /\ exit_status = 1
        /\ config = EmptyDict
        /\ trace = <<>>
        /\ log = <<>>
        /\ cmd = <<>>
        /\ rc = NoRc
        /\ ~version_info_txt.exists
        /\ ~desktop_file.exists

C3_Witness ==
    /\ file = MalformedFile
    /\ args_clean
    /\ pc = "exited"
    /\ error = "JSONDecodeError"

\* C4: on Windows, once version-info creation has run on a configuration
\* with a version, either the version has more than four components or a
\* non-numeric one, a version-format error was raised and no descriptor was
\* written, or the descriptor holds exactly four components: those of the
\* version followed by "0" components.
C4_VersionNormalised ==
    (/\ get_platform(sys_platform) = "windows"
     /\ Ran("prepare_platform_specific")
     /\ {"version", "app_name"} \subseteq DOMAIN config) =>
        LET parts == Split(config["version"], ".")
        IN  IF Len(parts) > 4 \/ \E i \in 1..Len(parts) : ~IsNumeric(parts[i])
            THEN error = "VersionFormatError" /\ ~version_info_txt.exists
            ELSE /\ version_info_txt.exists
                 /\ LET out == Split(version_info_txt.filevers, ",")
                    IN  /\ Len(out) = 4
                        /\ \A i \in 1..4 :
                              out[i] = IF i <= Len(parts) THEN parts[i] ELSE <<"0">>

\* C5: a configuration resolved from a document or from the defaults has
\* every key of the default configuration of the platform.
C5_DefaultKeysKept ==
    pc = "held" => DOMAIN _default_config(sys_platform) \subseteq DOMAIN config

\* C6 as stated: on every platform the assembled argument list has
\* --windowed exactly when the console flag is not true.
C6_WindowedEveryPlatform ==
    cmd # <<>> =>
        (Windowed \in Range(cmd) <=> ~(Get(config, "console", FALSE) = TRUE))

\* C6 amended: the assembled argument list has --windowed exactly when the
\* platform is windows or macos and the console flag is absent or false; on
\* linux it never has it.
C6_WindowedOffLinux ==
    cmd # <<>> =>
        (Windowed \in Range(cmd) <=>
            /\ get_platform(sys_platform) # "linux"
            /\ ("console" \notin DOMAIN config \/ config["console"] = FALSE))

C6_Witness ==
    /\ get_platform(sys_platform) = "linux"
    /\ "console" \in DOMAIN config
    /\ config["console"] = FALSE
    /\ cmd # <<>>
    /\ Windowed \notin Range(cmd)

\* the priority of the identity classes, highest first
ClaimedPriority ==
    <<"Developer ID Application",
      "Apple Development",
      "3rd Party Mac Developer Application",
      "Mac Developer">>

\* the line has the label of the class on it and an identifier
Carries(line, class) == Contains(line, class) /\ line.hex # ""

\* C7: identity resolution returns "-" when the listing failed or no line
\* carries a known label with an identifier, and otherwise the identifier of
\* a line carrying the highest-priority class that some line carries,
\* wherever the lines stand in the output.
C7_IdentityByPriority ==
    pc = "resolved" =>
        IF rc.security # 0 THEN identity = AdHoc
        ELSE LET classes == {i \in 1..Len(ClaimedPriority) :
                                \E n \in 1..Len(stdout) :
                                    Carries(stdout[n], ClaimedPriority[i])}
             IN  IF classes = {} THEN identity = AdHoc
                 ELSE LET best == CHOOSE i \in classes : \A j \in classes : i <= j
                      IN  \E n \in 1..Len(stdout) :
                              /\ Carries(stdout[n], ClaimedPriority[best])
                              /\ identity = stdout[n].hex

C7_Witness ==
    /\ pc = "resolved"
    /\ rc.security = 0
    /\ Len(stdout) = 2
    /\ stdout[1].label = "Mac Developer"
    /\ stdout[2].label = "Developer ID Application"
    /\ stdout[1].hex # ""
    /\ stdout[2].hex # ""
    /\ stdout[1].hex # stdout[2].hex
    /\ identity = stdout[2].hex

\* C8: sign_app never raises; it returns true only when signing and
\* verification both exited zero, false for a configuration without an
\* entitlements entry, and verification never runs after a failed signing.
C8_SignNeverRaises ==
    pc = "signed" =>
        /\ sign_result \in {"true", "false"}
        /\ error = ""
        /\ sign_result = "true" => (rc.codesign = 0 /\ rc.verify = 0)
        /\ "entitlements_file" \notin DOMAIN config => sign_result = "false"
        /\ rc.codesign # 0 => ~Ran("codesign --verify")

\* C9: the steps of a run are in the order clean (only when requested, and
\* first), preparation, bundler, signing; each runs at most once; the
\* bundler runs only after preparation; signing runs only on macOS and only
\* after a bundler that exited zero.
C9_StepOrder ==
    /\ \A i, j \in 1..Len(trace) : trace[i] = trace[j] => i = j
    /\ \A i \in 1..Len(trace) :
        /\ trace[i] = "clean" => (args_clean /\ i = 1)
        /\ trace[i] = "prepare_platform_specific" =>
              (IF args_clean THEN i = 2 /\ trace[1] = "clean" ELSE i = 1)
        /\ trace[i] = "pyinstaller" =>
              (i > 1 /\ trace[i - 1] = "prepare_platform_specific")
        /\ trace[i] \in SigningSteps =>
              /\ get_platform(sys_platform) = "macos"
              /\ rc.pyinstaller = 0
              /\ \E j \in 1..(i - 1) : trace[j] = "pyinstaller"
        /\ trace[i] = "codesign" => trace[i - 1] = "security"
        /\ trace[i] = "codesign --verify" => trace[i - 1] = "codesign"

C9_Witness ==
    /\ pc = "exited"
    /\ trace = <<"clean", "prepare_platform_specific", "pyinstaller",
                 "security", "codesign", "codesign --verify">>

CleanedEntry(d) == <<"INFO", "Cleaned", d, "directory">>

\* C10: clean() does not fail; it removes the build and dist directories
\* that exist and nothing outside them, logs one removal for each of them
\* and none for an absent one, leaves neither present, and changes nothing
\* when run again; no later step of a failing build brings a directory back.
C10_CleanTotalIdempotent ==
    [][/\ pc = "clean" =>
           /\ error' = ""
           /\ pc' = "build"
           /\ LET dirs == {config["build_dir"], config["dist_dir"]}
                  existing == dirs \cap fs
                  again == clean(config, fs')
              IN  /\ dirs \cap fs' = {}
                  /\ \A p \in fs \ fs' : \E d \in existing : IsUnder(p, d)
                  /\ fs' \subseteq fs
                  /\ Len(log') = Len(log) + Cardinality(existing)
                  /\ \A d \in dirs :
                        (CleanedEntry(d) \in Range(log')) <=> (d \in existing)
                  /\ again.err = "" /\ again.dirs = fs' /\ again.log = <<>>
       /\ (pc \in {"invoke", "postbuild", "return"} /\ result' # "true") =>
           fs' = fs
      ]_vars

====
